---- MODULE Spec2Model ----
(***************************************************************************)
(* A model of the callback orchestrator of ros2_def                        *)
(* (orchestrator/orchestrator_lib/orchestrator.py): the constraint graph   *)
(* of actions, the scheduler __process, the admission of data and clock    *)
(* offers and the completion callbacks.                                    *)
(*                                                                         *)
(* Every handler of the class is one action of the model.  A handler that  *)
(* raises keeps the assignments it made before the raise; the exception is *)
(* recorded in result.exc and the object stays usable by its caller.       *)
(***************************************************************************)
EXTENDS Integers, Sequences, FiniteSets, TLC

VARIABLES
    node_models,                  \* self.node_models: list of NodeModel
    external_input_topics_config, \* names of self.external_input_topics_config
    node_timestep,                \* do graph nodes carry the "timestep" attribute
    next_input,                   \* self.next_input: FutureInput | FutureTimestep | None
    simulator_time,               \* self.simulator_time: nanoseconds | None
    graph,                        \* self.graph: nx.DiGraph of actions
    next_id,                      \* _next_id.value
    future,                       \* state of the Future created by the latest offer
    published,                    \* publications made on the intercepted topics, in order
    result,                       \* what the latest handler call did (observation only)
                                  \* op, exc; arg: its argument, kept if it returned
    env,                          \* what the data source and the nodes still owe:
                                  \* inputs: granted topics without their message,
                                  \* effects: <<action, node, effect>> yet to be emitted
    delivered,                    \* how many owed inputs and effects were delivered
    driver,                       \* BagPlayer.timestep_reconfiguration: pc, t
    names,                        \* the arguments and results of intercepted_name
    tracker                       \* an ApproximateTimeSynchronizerTracker and its callers

vars == <<node_models, external_input_topics_config, node_timestep, next_input,
          simulator_time, graph, next_id, future, published, result,
         env, delivered, driver, names, tracker>>

---------------------------------------------------------------------------
(* Bounds of the model *)

\* the data source offers MaxTime + 1 clock values
MaxTime == 1
\* no data offer is made once this many actions have been inserted
MaxActions == 2
\* the same for the runs without clock offers (SpecSerial)
MaxSerialActions == 4
\* the callers of the tracker make this many calls of test_input
MaxCalls == 3
\* the data source of SpecLive makes no offer once it has published this many inputs
MaxOffers == 3
\* the interpreter's recursion limit, in nested calls of __add_action_and_effects
MaxDepth == 2

---------------------------------------------------------------------------
(* Values *)

\* Python's None, for simulator_time, parent and cause_action_id
None == -1

\* the clock values the data source offers: it steps its clock by 2 units
Times == {2 * k : k \in 0 .. MaxTime}

Msgs == {"m1"}
NoData == "None"

Topics == {"A", "B", "C", "D", "T", "clock"}
NodeNames == {"X", "Y", "P1", "P2", "S", "W"}

\* node_model.py: causes and effects (dataclasses compared by value)
TopicInput(topic) == [type |-> "TopicInput", input_topic |-> topic, period |-> 0]

TimerInput(period) == [type |-> "TimerInput", input_topic |-> "", period |-> period]

TopicPublish(topic) == [type |-> "TopicPublish", output_topic |-> topic]

StatusPublish == [type |-> "StatusPublish", output_topic |-> ""]

\* NodeModel.get_name
GetName(model) == model.name

\* NodeModel.get_possible_inputs
GetPossibleInputs(model) == DOMAIN model.effects

\* NodeModel.effects_for_input
EffectsForInput(model, cause) == model.effects[cause]

\* action.py: RxAction(state, node, timestamp, cause, topic, data=None)
\* parent is no field of the class: it keeps, for observation, the parent the action was
\* inserted with
RxAction(state, node, timestamp, cause, topic) ==
    [kind |-> "RxAction", state |-> state, node |-> node, timestamp |-> timestamp,
     cause |-> cause, topic |-> topic, data |-> NoData, period |-> 0, parent |-> None]

\* action.py: TimerCallbackAction(state, node, timestamp, cause, period)
TimerCallbackAction(state, node, timestamp, cause, period) ==
    [kind |-> "TimerCallbackAction", state |-> state, node |-> node,
     timestamp |-> timestamp, cause |-> cause, topic |-> "", data |-> NoData,
     period |-> period, parent |-> None]

---------------------------------------------------------------------------
(* Node configurations the orchestrator is constructed with *)

\* X: A -> publish B, publish C;  Y: B -> status, timer of period 1 -> status.
\* Nobody subscribes C.
\* D is an external input nobody subscribes.
ChainConfig ==
    [models |-> << [name |-> "X",
                    effects |-> (TopicInput("A") :> <<TopicPublish("B"), TopicPublish("C")>>)],
                   [name |-> "Y",
                    effects |-> (TopicInput("B") :> <<StatusPublish>>)
                             @@ (TimerInput(1) :> <<StatusPublish>>)] >>,
     external |-> {"A", "D"}]

\* P1: A -> publish T;  P2: C -> publish T.  No modelled node subscribes T.
TwoPublishersConfig ==
    [models |-> << [name |-> "P1",
                    effects |-> (TopicInput("A") :> <<TopicPublish("T")>>)],
                   [name |-> "P2",
                    effects |-> (TopicInput("C") :> <<TopicPublish("T")>>)] >>,
     external |-> {"A", "C"}]

\* W: timer of period 2 -> status;  X: A -> status, C -> status;  Y: A -> status.
TimerConfig ==
    [models |-> << [name |-> "W",
                    effects |-> (TimerInput(2) :> <<StatusPublish>>)],
                   [name |-> "X",
                    effects |-> (TopicInput("A") :> <<StatusPublish>>)
                             @@ (TopicInput("C") :> <<StatusPublish>>)],
                   [name |-> "Y",
                    effects |-> (TopicInput("A") :> <<StatusPublish>>)] >>,
     external |-> {"A", "C", "D"}]

\* P1 and P2 publish T, S subscribes to T.
SerialConfig ==
    [models |-> << [name |-> "P1",
                    effects |-> (TopicInput("A") :> <<TopicPublish("T")>>)],
                   [name |-> "P2",
                    effects |-> (TopicInput("C") :> <<TopicPublish("T")>>)],
                   [name |-> "S",
                    effects |-> (TopicInput("T") :> <<StatusPublish>>)] >>,
     external |-> {"A", "C"}]

\* X and Y subscribe to the external topic A.
FanOutConfig ==
    [models |-> << [name |-> "X",
                    effects |-> (TopicInput("A") :> <<StatusPublish>>)],
                   [name |-> "Y",
                    effects |-> (TopicInput("A") :> <<StatusPublish>>)] >>,
     external |-> {"A"}]

\* X: A -> publish T, T -> status: the node receives its own publication; the data
\* flow A -> T -> status has no cycle.
LoopbackConfig ==
    [models |-> << [name |-> "X",
                    effects |-> (TopicInput("A") :> <<TopicPublish("T")>>)
                             @@ (TopicInput("T") :> <<StatusPublish>>)] >>,
     external |-> {"A"}]

\* P1: A -> publish T;  S and W subscribe to T.
TreeConfig ==
    [models |-> << [name |-> "P1",
                    effects |-> (TopicInput("A") :> <<TopicPublish("T")>>)],
                   [name |-> "S",
                    effects |-> (TopicInput("T") :> <<StatusPublish>>)],
                   [name |-> "W",
                    effects |-> (TopicInput("T") :> <<StatusPublish>>)] >>,
     external |-> {"A"}]

\* X: A -> publish A: the node publishes the topic it subscribes.
SelfLoopConfig ==
    [models |-> << [name |-> "X",
                    effects |-> (TopicInput("A") :> <<TopicPublish("A")>>)] >>,
     external |-> {"A"}]

Configs == {ChainConfig, TwoPublishersConfig, TimerConfig, SelfLoopConfig}

---------------------------------------------------------------------------
(* The graph: nx.DiGraph with node attribute "data" and edge attribute     *)
(* "edge_type".  Nodes iterate in insertion order, which is id order.      *)

EmptyGraph == [node |-> [n \in {} |-> 0], edge |-> [e \in {} |-> ""]]

Ids(g) == DOMAIN g.node

\* graph.add_node(node_id, data=action)
AddNode(g, id, action) == [g EXCEPT !.node = (id :> action) @@ g.node]

\* graph.add_edge(u, v, edge_type=t): an existing edge u -> v keeps one attribute, the new one
AddEdges(g, u, targets, t) ==
    [g EXCEPT !.edge = [e \in {<<u, v>> : v \in targets} |-> t] @@ g.edge]

\* graph.remove_node(id): the node and its incident edges
RemoveNode(g, id) ==
    [node |-> [n \in Ids(g) \ {id} |-> g.node[n]],
     edge |-> [e \in {d \in DOMAIN g.edge : d[1] # id /\ d[2] # id} |-> g.edge[e]]]

\* graph.out_degree(id)
OutDegree(g, id) == Cardinality({e \in DOMAIN g.edge : e[1] = id})

\* graph.has_successor(u, v)
HasSuccessor(g, u, v) == <<u, v>> \in DOMAIN g.edge

Min(S) == CHOOSE x \in S : \A y \in S : x <= y

RECURSIVE SortedSeq(_)
\* the elements of a set of ids in iteration (insertion) order
SortedSeq(S) == IF S = {} THEN << >> ELSE <<Min(S)>> \o SortedSeq(S \ {Min(S)})

---------------------------------------------------------------------------
(* Graph insertion: __add_action_and_effects, __add_all_effects_for_cause  *)
(* These work on s = [graph, next_id, depth, exc]: depth is the number of   *)
(* calls of __add_action_and_effects on the stack, exc the exception that  *)
(* unwinds it.                                                             *)

Insertion(g, id) == [graph |-> g, next_id |-> id, depth |-> 0, exc |-> "None"]

\* __node_model_by_name: the first model of that name
NodeModelByName(name) ==
    node_models[Min({i \in DOMAIN node_models : GetName(node_models[i]) = name})]

\* a variant that adds no sibling edge
NoSameNodeTargets(g, node_id, action) == {}

\* a variant that adds no sibling edge to a RUNNING action
SameNodeIdleTargets(g, node_id, action) ==
    {n \in Ids(g) : /\ g.node[n].node = action.node
                    /\ n # node_id
                    /\ g.node[n].state # "RUNNING"}

\* lines 245-249: an edge to every other action at the same node
SameNodeTargets(g, node_id, action) ==
    {n \in Ids(g) : g.node[n].node = action.node /\ n # node_id}

NoSameTopicTargets(g, effects) == {}

\* a variant that looks for the WAITING RxActions only
SameTopicWaitingTargets(g, effects) ==
    {n \in Ids(g) : /\ g.node[n].kind = "RxAction"
                    /\ g.node[n].state = "WAITING"
                    /\ \E i \in DOMAIN effects : effects[i] = TopicPublish(g.node[n].topic)}

\* lines 272-280: every RxAction in the graph on a topic these effects publish
SameTopicTargets(g, effects) ==
    {n \in Ids(g) : /\ g.node[n].kind = "RxAction"
                    /\ \E i \in DOMAIN effects : effects[i] = TopicPublish(g.node[n].topic)}

\* lines 256-261: the cause of an action
CauseOf(action) ==
    IF action.kind = "TimerCallbackAction"
    THEN TimerInput(action.period)
    ELSE TopicInput(action.topic)

RECURSIVE AddActionAndEffects(_, _, _)
RECURSIVE AddDownstream(_, _, _, _, _, _)
RECURSIVE AddDownstreamFirstOnly(_, _, _, _, _, _)

\* a variant that inserts the RxAction of the first subscriber only
AddDownstreamFirstOnly(s, effects, i, j, cause_node_id, time) ==
    IF s.exc # "None" \/ i > Len(effects) THEN s
    ELSE IF effects[i].type # "TopicPublish" \/ j > Len(node_models)
    THEN AddDownstreamFirstOnly(s, effects, i + 1, 1, cause_node_id, time)
    ELSE LET resulting_input == TopicInput(effects[i].output_topic)
             node == node_models[j]
         IN  IF resulting_input \in GetPossibleInputs(node)
             THEN AddDownstreamFirstOnly(
                      AddActionAndEffects(
                          s,
                          RxAction("WAITING", GetName(node), time, resulting_input,
                                   resulting_input.input_topic),
                          cause_node_id),
                      effects, i + 1, 1, cause_node_id, time)
             ELSE AddDownstreamFirstOnly(s, effects, i, j + 1, cause_node_id, time)

\* lines 282-289: for effect i, node model j onwards, insert the resulting RxActions
AddDownstream(s, effects, i, j, cause_node_id, time) ==
    IF s.exc # "None" \/ i > Len(effects) THEN s
    ELSE IF effects[i].type # "TopicPublish" \/ j > Len(node_models)
    THEN AddDownstream(s, effects, i + 1, 1, cause_node_id, time)
    ELSE LET resulting_input == TopicInput(effects[i].output_topic)
             node == node_models[j]
         IN  IF resulting_input \in GetPossibleInputs(node)
             THEN AddDownstream(
                      AddActionAndEffects(
                          s,
                          RxAction("WAITING", GetName(node), time, resulting_input,
                                   resulting_input.input_topic),
                          cause_node_id),
                      effects, i, j + 1, cause_node_id, time)
             ELSE AddDownstream(s, effects, i, j + 1, cause_node_id, time)

\* __add_all_effects_for_cause
AddAllEffectsForCause(s, node_name, cause, cause_node_id, time) ==
    LET effects == EffectsForInput(NodeModelByName(node_name), cause)
        g == AddEdges(s.graph, cause_node_id, SameTopicTargets(s.graph, effects),
                      "SAME_TOPIC")
    IN  AddDownstream([s EXCEPT !.graph = g], effects, 1, 1, cause_node_id, time)

\* __add_action_and_effects; a call beyond the recursion limit raises RecursionError
AddActionAndEffects(s, action, parent) ==
    IF s.depth >= MaxDepth THEN [s EXCEPT !.exc = "RecursionError"]
    ELSE LET node_id == s.next_id
             g1 == AddNode(s.graph, node_id, [action EXCEPT !.parent = parent])
             g2 == AddEdges(g1, node_id, SameNodeTargets(g1, node_id, action), "SAME_NODE")
             g3 == IF parent # None THEN AddEdges(g2, node_id, {parent}, "CAUSALITY")
                   ELSE g2
             s1 == AddAllEffectsForCause(
                       [s EXCEPT !.graph = g3, !.next_id = node_id + 1, !.depth = @ + 1],
                       action.node, CauseOf(action), node_id, action.timestamp)
         IN  [s1 EXCEPT !.depth = s.depth]

RECURSIVE AddActions(_, _, _)
\* "for action in expected_...actions: self.__add_action_and_effects(action)"
AddActions(s, actions, k) ==
    IF s.exc # "None" \/ k > Len(actions) THEN s
    ELSE AddActions(AddActionAndEffects(s, actions[k], None), actions, k + 1)

RECURSIVE ExpectedRxActions(_, _, _)
RECURSIVE FirstExpectedRxAction(_, _, _)
\* a variant that stops at the first node model that has TopicInput(topic)
FirstExpectedRxAction(t, topic, j) ==
    IF j > Len(node_models) THEN << >>
    ELSE IF TopicInput(topic) \in GetPossibleInputs(node_models[j])
    THEN << RxAction("WAITING", GetName(node_models[j]), t, TopicInput(topic), topic) >>
    ELSE FirstExpectedRxAction(t, topic, j + 1)

\* lines 203-205: one WAITING RxAction per node model that has TopicInput(topic)
ExpectedRxActions(t, topic, j) ==
    IF j > Len(node_models) THEN << >>
    ELSE (IF TopicInput(topic) \in GetPossibleInputs(node_models[j])
          THEN << RxAction("WAITING", GetName(node_models[j]), t, TopicInput(topic),
                           topic) >>
          ELSE << >>) \o ExpectedRxActions(t, topic, j + 1)

\* __add_topic_input
AddTopicInput(s, t, topic) == AddActions(s, ExpectedRxActions(t, topic, 1), 1)

\* lines 173-177: the loop builds each Timer but never appends it to the list
Timers == << >>

\* lines 181-192: the first timer that makes the step too large, or 0
StepTooLarge(last_time, t) ==
    IF \E k \in DOMAIN Timers : t - last_time > Timers[k].cause.period
    THEN Min({k \in DOMAIN Timers : t - last_time > Timers[k].cause.period})
    ELSE 0

RECURSIVE ExpectedTimerActions(_, _, _)
\* lines 181-192: one READY TimerCallbackAction per timer whose next fire is <= t
ExpectedTimerActions(last_time, t, k) ==
    IF k > Len(Timers) THEN << >>
    ELSE LET timer == Timers[k]
             next_fire == (last_time \div timer.cause.period) * timer.cause.period
                          + timer.cause.period
         IN  (IF next_fire <= t
              THEN << TimerCallbackAction("READY", timer.node, t, timer.cause,
                                          timer.cause.period) >>
              ELSE << >>) \o ExpectedTimerActions(last_time, t, k + 1)

---------------------------------------------------------------------------
(* The orchestrator's methods, as functions of the object                  *)
(*   o = [next_input, simulator_time, graph, next_id, future, published]   *)
(* plus what the call observes: exc (the exception raised, or "None"),     *)
(* grant (the offer granted by the call, with the graph and time it was    *)
(* granted in), processed (__process ran its loop) and pre (the graph when *)
(* __process began).                                                       *)

NoInput == [kind |-> "None", topic |-> "", time |-> None]

\* FutureInput(topic, future)
FutureInput(topic) == [kind |-> "FutureInput", topic |-> topic, time |-> None]

\* FutureTimestep(time, future)
FutureTimestep(t) == [kind |-> "FutureTimestep", topic |-> "", time |-> t]

NoGrant == [offer |-> NoInput, graph |-> EmptyGraph, time |-> None]

\* a variant that looks for RUNNING actions only
GraphHasRunning(g) == \E n \in Ids(g) : g.node[n].state = "RUNNING"

\* __graph_is_busy
GraphIsBusy(g) == \E n \in Ids(g) : g.node[n].state \in {"RUNNING", "WAITING"}

\* a variant that is ready for every offer
AlwaysReadyForNextInput(g, next) == TRUE

\* __ready_for_next_input, for the offer next
ReadyForNextInput(g, next) ==
    IF next.kind = "FutureTimestep" THEN TRUE
    ELSE ~ \E n \in Ids(g) : /\ g.node[n].state \in {"READY", "WAITING"}
                             /\ g.node[n].kind = "RxAction"
                             /\ g.node[n].topic = next.topic

\* __add_pending_timers_until(t), called from __request_next_input
AddPendingTimersUntil(o, t) ==
    IF o.simulator_time = None THEN [o EXCEPT !.exc = "RuntimeError"]
    ELSE IF StepTooLarge(o.simulator_time, t) # 0 THEN [o EXCEPT !.exc = "RuntimeError"]
    ELSE LET s == AddActions(Insertion(o.graph, o.next_id),
                             ExpectedTimerActions(o.simulator_time, t, 1), 1)
         IN  [o EXCEPT !.graph = s.graph, !.next_id = s.next_id, !.exc = s.exc]

\* __request_next_input, case FutureInput
RequestInput(o) ==
    LET next == o.next_input
        s == AddTopicInput(Insertion(o.graph, o.next_id), o.simulator_time, next.topic)
        o1 == [o EXCEPT !.next_input = NoInput,
                        !.graph = s.graph,
                        !.next_id = s.next_id,
                        !.exc = s.exc]
    IN  IF s.exc # "None" THEN o1
        ELSE [o1 EXCEPT !.future = "done",
                        !.grant = [offer |-> next, graph |-> o.graph,
                                   time |-> o.simulator_time]]

\* a variant that completes the future before it adds the timers and sets the time
CompleteThenRequestTimestep(o) ==
    LET next == o.next_input
        o1 == AddPendingTimersUntil([o EXCEPT !.next_input = NoInput, !.future = "done"],
                                    next.time)
    IN  IF o1.exc # "None" THEN o1
        ELSE [o1 EXCEPT !.simulator_time = next.time,
                        !.grant = [offer |-> next, graph |-> o.graph,
                                   time |-> o.simulator_time]]

\* __request_next_input, case FutureTimestep
RequestTimestep(o) ==
    LET next == o.next_input
        o1 == AddPendingTimersUntil([o EXCEPT !.next_input = NoInput], next.time)
    IN  IF o1.exc # "None" THEN o1
        ELSE [o1 EXCEPT !.simulator_time = next.time,
                        !.future = "done",
                        !.grant = [offer |-> next, graph |-> o.graph,
                                   time |-> o.simulator_time]]

\* __request_next_input
RequestNextInput(o) ==
    CASE o.next_input.kind = "FutureInput" -> RequestInput(o)
      [] o.next_input.kind = "FutureTimestep" -> RequestTimestep(o)
      [] OTHER -> [o EXCEPT !.exc = "RuntimeError"]

\* a variant that does not look for the payload
EligibleWithoutData(g) ==
    {n \in Ids(g) : OutDegree(g, n) = 0 /\ g.node[n].state # "RUNNING"}

\* lines 296-303: the actions the loop of __process would start
Eligible(g) == {n \in Ids(g) : OutDegree(g, n) = 0 /\ g.node[n].state = "READY"}

StartedIgnoringEdges(g) == {n \in Ids(g) : g.node[n].state = "READY"}

StartedFirstOnly(g) ==
    IF Eligible(g) = {} THEN {} ELSE {Min(Eligible(g))}

\* lines 304-314: the eligible RxActions the loop starts, in id order, until it meets an
\* eligible TimerCallbackAction (NotImplementedError)
Started(g) ==
    LET timers == {n \in Eligible(g) : g.node[n].kind = "TimerCallbackAction"}
    IN  {n \in Eligible(g) : /\ g.node[n].kind = "RxAction"
                             /\ (timers = {} \/ n < Min(timers))}

PublicationOfNothing(action) ==
    [node |-> action.node, topic |-> action.topic, data |-> NoData]

\* line 310: interception_pubs[node][topic].publish(data)
Publication(action) == [node |-> action.node, topic |-> action.topic, data |-> action.data]

\* __process
Process(o) ==
    LET g == o.graph
        started == SortedSeq(Started(g))
        o1 == [o EXCEPT
                 !.graph.node = [n \in Ids(g) |->
                                    IF n \in Started(g)
                                    THEN [g.node[n] EXCEPT !.state = "RUNNING"]
                                    ELSE g.node[n]],
                 !.published = @ \o [k \in DOMAIN started |->
                                        Publication(g.node[started[k]])],
                 !.processed = TRUE,
                 !.pre = g]
    IN  IF \E n \in Eligible(g) : g.node[n].kind = "TimerCallbackAction"
        THEN [o1 EXCEPT !.exc = "NotImplementedError"]
        ELSE IF o1.next_input.kind = "None" THEN o1
        ELSE IF ~ReadyForNextInput(o1.graph, o1.next_input) THEN o1
        ELSE RequestNextInput(o1)

\* does this action's cause declare this effect (lines 366-370, 377-381)
Declares(action, effect) ==
    LET outputs == EffectsForInput(NodeModelByName(action.node), action.cause)
    IN  \E i \in DOMAIN outputs : outputs[i] = effect

\* __find_running_action: the first RUNNING action declaring TopicPublish(topic), or None
FindRunningAction(g, published_topic_name) ==
    LET found == {n \in Ids(g) : /\ g.node[n].state = "RUNNING"
                                 /\ Declares(g.node[n], TopicPublish(published_topic_name))}
    IN  IF found = {} THEN None ELSE Min(found)

\* a variant that does not compare the node name
FindRunningStatusOfAnyNode(g, node_name) ==
    LET found == {n \in Ids(g) : /\ g.node[n].state = "RUNNING"
                                 /\ Declares(g.node[n], StatusPublish)}
    IN  IF found = {} THEN None ELSE Min(found)

\* __find_running_action_status
FindRunningActionStatus(g, node_name) ==
    LET found == {n \in Ids(g) : /\ g.node[n].state = "RUNNING"
                                 /\ g.node[n].node = node_name
                                 /\ Declares(g.node[n], StatusPublish)}
    IN  IF found = {} THEN None ELSE Min(found)

\* lines 473-480 and 491-498: the WAITING RxActions on the topic
WaitingRx(g, topic_name) ==
    {n \in Ids(g) : /\ g.node[n].kind = "RxAction"
                    /\ g.node[n].topic = topic_name
                    /\ g.node[n].state = "WAITING"}

\* lines 481-483: the earliest node_data["timestep"] of the WAITING RxActions on the topic
InputTimestep(g, topic_name) ==
    IF WaitingRx(g, topic_name) = {} THEN None
    ELSE Min({g.node[n].timestamp : n \in WaitingRx(g, topic_name)})

\* lines 500-511: the WAITING RxActions that buffer the message
Buffering(g, topic_name, cause_action_id) ==
    IF cause_action_id # None
    THEN {n \in WaitingRx(g, topic_name) :
              /\ HasSuccessor(g, n, cause_action_id)
              /\ g.edge[<<n, cause_action_id>>] = "CAUSALITY"}
    ELSE {n \in WaitingRx(g, topic_name) :
              g.node[n].timestamp = InputTimestep(g, topic_name)}

\* a variant that leaves the cause in the graph
BufferAndProcessKeepingCause(o, topic_name, msg, cause_action_id) ==
    LET g == o.graph
        buffering == Buffering(g, topic_name, cause_action_id)
        g1 == [g EXCEPT !.node = [n \in Ids(g) |->
                                     IF n \in buffering
                                     THEN [g.node[n] EXCEPT !.state = "READY", !.data = msg]
                                     ELSE g.node[n]]]
    IN  Process([o EXCEPT !.graph = g1])

\* lines 489-524: buffer the message, remove the cause, process
BufferAndProcess(o, topic_name, msg, cause_action_id) ==
    LET g == o.graph
        buffering == Buffering(g, topic_name, cause_action_id)
        g1 == [g EXCEPT !.node = [n \in Ids(g) |->
                                     IF n \in buffering
                                     THEN [g.node[n] EXCEPT !.state = "READY", !.data = msg]
                                     ELSE g.node[n]]]
        g2 == IF cause_action_id # None THEN RemoveNode(g1, cause_action_id) ELSE g1
    IN  Process([o EXCEPT !.graph = g2])

\* a variant that takes every message without a cause for an external input
CallbackTakingAllForInputs(o, topic_name, msg) ==
    LET cause_action_id == FindRunningAction(o.graph, topic_name)
    IN  IF topic_name = "clock" THEN o
        ELSE IF cause_action_id # None
        THEN BufferAndProcess(o, topic_name, msg, cause_action_id)
        ELSE IF ~node_timestep /\ WaitingRx(o.graph, topic_name) # {}
        THEN [o EXCEPT !.exc = "KeyError"]
        ELSE BufferAndProcess(o, topic_name, msg, None)

\* __interception_subscription_callback
InterceptionSubscriptionCallback(o, topic_name, msg) ==
    LET cause_action_id == FindRunningAction(o.graph, topic_name)
    IN  IF topic_name = "clock" THEN o
        ELSE IF cause_action_id # None
        THEN BufferAndProcess(o, topic_name, msg, cause_action_id)
        ELSE IF topic_name \notin external_input_topics_config
        THEN [o EXCEPT !.exc = "ActionNotFoundError"]
        \* line 481 reads node_data["timestep"], which add_node (line 243) does not set
        ELSE IF ~node_timestep /\ WaitingRx(o.graph, topic_name) # {}
        THEN [o EXCEPT !.exc = "KeyError"]
        ELSE BufferAndProcess(o, topic_name, msg, None)

\* __status_callback
StatusCallback(o, node_name) ==
    LET cause_action_id == FindRunningActionStatus(o.graph, node_name)
    IN  IF cause_action_id = None
        THEN [o EXCEPT !.exc = "ActionNotFoundError"]
        ELSE Process([o EXCEPT !.graph = RemoveNode(o.graph, cause_action_id)])

\* a variant without the check of simulator_time
PublishAllowedWithoutTime(o, topic) ==
    IF o.next_input.kind # "None" THEN [o EXCEPT !.exc = "RuntimeError"]
    ELSE LET o1 == [o EXCEPT !.next_input = FutureInput(topic), !.future = "pending"]
         IN  IF ~GraphIsBusy(o1.graph) THEN RequestNextInput(o1) ELSE o1

\* a variant that never requests the input at once
PublishAllowedLater(o, topic) ==
    IF o.next_input.kind # "None" THEN [o EXCEPT !.exc = "RuntimeError"]
    ELSE IF o.simulator_time = None THEN [o EXCEPT !.exc = "RuntimeError"]
    ELSE [o EXCEPT !.next_input = FutureInput(topic), !.future = "pending"]

\* wait_until_publish_allowed
WaitUntilPublishAllowed(o, topic) ==
    IF o.next_input.kind # "None" THEN [o EXCEPT !.exc = "RuntimeError"]
    ELSE IF o.simulator_time = None THEN [o EXCEPT !.exc = "RuntimeError"]
    ELSE LET o1 == [o EXCEPT !.next_input = FutureInput(topic), !.future = "pending"]
         IN  IF ~GraphIsBusy(o1.graph) THEN RequestNextInput(o1) ELSE o1

\* a variant without the check of a pending offer
TimePublishAllowedOverwriting(o, t) ==
    LET o1 == [o EXCEPT !.next_input = FutureTimestep(t), !.future = "pending"]
    IN  IF ~GraphIsBusy(o1.graph) THEN RequestNextInput(o1) ELSE o1

\* wait_until_time_publish_allowed
WaitUntilTimePublishAllowed(o, t) ==
    IF o.next_input.kind # "None" THEN [o EXCEPT !.exc = "RuntimeError"]
    ELSE LET o1 == [o EXCEPT !.next_input = FutureTimestep(t), !.future = "pending"]
         IN  IF ~GraphIsBusy(o1.graph) THEN RequestNextInput(o1) ELSE o1

---------------------------------------------------------------------------
(* The state machine *)

Self ==
    [next_input |-> next_input, simulator_time |-> simulator_time, graph |-> graph,
     next_id |-> next_id, future |-> future, published |-> published,
     exc |-> "None", grant |-> NoGrant, processed |-> FALSE, pre |-> EmptyGraph]

NoArg == ""

NoCall ==
    [op |-> "init", arg |-> NoArg, exc |-> "None", grant |-> NoGrant, processed |-> FALSE,
     pre |-> EmptyGraph]

\* the handler op, called with arg, took the object to o
Handled(o, op, arg) ==
    /\ next_input' = o.next_input
    /\ simulator_time' = o.simulator_time
    /\ graph' = o.graph
    /\ next_id' = o.next_id
    /\ future' = o.future
    /\ published' = o.published
    /\ result' = [op |-> op, arg |-> IF o.exc = "None" THEN arg ELSE NoArg, exc |-> o.exc,
                   grant |-> o.grant, processed |-> o.processed, pre |-> o.pre]
    /\ UNCHANGED <<node_models, external_input_topics_config, node_timestep>>

\* a call from an environment that keeps no account of what is owed
Return(o, op, arg) == Handled(o, op, arg) /\ UNCHANGED <<env, delivered, driver, names, tracker>>

\* the number of actions a data offer on this topic inserts when granted
Inserted(topic) == AddTopicInput(Insertion(EmptyGraph, 0), 0, topic).next_id

NothingOwed == [inputs |-> {}, effects |-> {}]
NoDriver == [pc |-> "none", t |-> 0]
NoNames == [node |-> <<>>, topic |-> <<>>, name |-> <<>>]
NoTracker == [calls |-> 0]

\* Orchestrator.__init__ (lines 47-76), for one of the configurations
Construct(config) ==
    /\ node_models = config.models
    /\ external_input_topics_config = config.external
    /\ next_input = NoInput
    /\ graph = EmptyGraph
    /\ next_id = 0
    /\ future = "None"
    /\ published = << >>
    /\ result = NoCall
    /\ env = NothingOwed
    /\ delivered = [inputs |-> 0, effects |-> 0]
    /\ driver = NoDriver
    /\ names = NoNames
    /\ tracker = NoTracker

\* the data source offers data on one of the external input topics
OfferInput(topic) ==
    /\ topic \in external_input_topics_config
    /\ next_id + Inserted(topic) <= MaxActions
    /\ Return(WaitUntilPublishAllowed(Self, topic), "offer_input", topic)

\* the data source offers a clock value
OfferTime(t) ==
    Return(WaitUntilTimePublishAllowed(Self, t), "offer_time", NoArg)

\* the middleware delivers a message on a subscribed topic
TopicMessage(topic, msg) ==
    Return(InterceptionSubscriptionCallback(Self, topic, msg), "message", topic)

\* the middleware delivers a status message of a node
StatusMessage(node) ==
    Return(StatusCallback(Self, node), "status", node)

Next ==
    \/ \E topic \in Topics \ {"clock"} : OfferInput(topic)
    \/ \E t \in Times : OfferTime(t)
    \/ \E topic \in Topics, msg \in Msgs : TopicMessage(topic, msg)
    \/ \E node \in NodeNames : StatusMessage(node)

\* The orchestrator as constructed (simulator_time None), or with its clock at 0:
\* the first clock offer of a constructed orchestrator raises (line 163), so that
\* simulator_time stays None in every state reached from construction alone.
Init ==
    /\ \E config \in Configs : Construct(config)
    /\ simulator_time \in {None, 0}
    /\ node_timestep = FALSE

Spec == Init /\ [][Next]_vars

\* The same orchestrator with graph nodes that carry their "timestep", as add_node
\* stores it in orchestrator_dummy_nodes (line 211): external inputs are buffered.
InitTimestep ==
    /\ \E config \in Configs : Construct(config)
    /\ simulator_time \in {None, 0}
    /\ node_timestep = TRUE

SpecTimestep == InitTimestep /\ [][Next]_vars

\* Runs of data offers alone, the clock staying at 0, with room for two inputs of two
\* actions each.
OfferInputSerial(topic) ==
    /\ topic \in external_input_topics_config
    /\ next_id + Inserted(topic) <= MaxSerialActions
    /\ Return(WaitUntilPublishAllowed(Self, topic), "offer_input", topic)

SerialMsgs == {"m1", "m2"}

NextSerial ==
    \/ \E topic \in Topics \ {"clock"} : OfferInputSerial(topic)
    \/ \E topic \in Topics, msg \in SerialMsgs : TopicMessage(topic, msg)
    \/ \E node \in NodeNames : StatusMessage(node)

InitSerial ==
    /\ \E config \in {SerialConfig, FanOutConfig, LoopbackConfig, TreeConfig} :
           Construct(config)
    /\ simulator_time = 0
    /\ node_timestep = TRUE

SpecSerial == InitSerial /\ [][NextSerial]_vars

(***************************************************************************)
(* The orchestrator with a data source and nodes that do what they owe:    *)
(* the data source awaits the future of its offer and publishes every      *)
(* granted input; a node emits every effect declared for the cause of an   *)
(* action that was made RUNNING, once, in any order.                       *)
(***************************************************************************)

\* the actions this call made RUNNING
StartedBy(o) ==
    {n \in Ids(o.graph) : /\ o.graph.node[n].state = "RUNNING"
                          /\ (n \in Ids(graph) => graph.node[n].state # "RUNNING")}

\* the declared effects of the actions this call made RUNNING
StartedEffects(o) ==
    UNION {LET action == o.graph.node[n]
               effects == EffectsForInput(NodeModelByName(action.node), CauseOf(action))
           IN  {<<n, action.node, effects[i]>> : i \in DOMAIN effects} :
           n \in StartedBy(o)}

\* what is owed after a call: the message of a granted data offer, and the declared
\* effects of the actions the call made RUNNING
Observe(o, e) ==
    [inputs |-> e.inputs \cup (IF o.grant.offer.kind = "FutureInput"
                               THEN {o.grant.offer.topic} ELSE {}),
     effects |-> e.effects \cup StartedEffects(o)]

\* BagPlayer: f = wait_until_publish_allowed(topic), made when no offer is pending
LiveOffer(topic) ==
    /\ topic \in external_input_topics_config
    /\ next_input.kind = "None"
    /\ next_id + Inserted(topic) <= MaxSerialActions
    /\ delivered.inputs < MaxOffers
    /\ \E o \in {WaitUntilPublishAllowed(Self, topic)} :
           Handled(o, "offer_input", topic) /\ env' = Observe(o, env)
    /\ UNCHANGED <<delivered, driver, names, tracker>>

\* BagPlayer: spin_until_future_complete(f), then publish the input
LiveInput(topic, msg) ==
    /\ topic \in env.inputs
    /\ \E o \in {InterceptionSubscriptionCallback(Self, topic, msg)} :
           /\ Handled(o, "message", topic)
           /\ env' = Observe(o, [env EXCEPT !.inputs = @ \ {topic}])
    /\ delivered' = [delivered EXCEPT !.inputs = @ + 1]
    /\ UNCHANGED <<driver, names, tracker>>

\* a node emits an effect it owes: a message on a topic or its status
LiveEffect(e, msg) ==
    /\ e \in env.effects
    /\ \E o \in {IF e[3].type = "TopicPublish"
                  THEN InterceptionSubscriptionCallback(Self, e[3].output_topic, msg)
                  ELSE StatusCallback(Self, e[2])} :
           /\ IF e[3].type = "TopicPublish"
              THEN Handled(o, "message", e[3].output_topic)
              ELSE Handled(o, "status", e[2])
           /\ env' = Observe(o, [env EXCEPT !.effects = @ \ {e}])
    /\ delivered' = [delivered EXCEPT !.effects = @ + 1]
    /\ UNCHANGED <<driver, names, tracker>>

NextLive ==
    \/ \E topic \in Topics \ {"clock"} : LiveOffer(topic)
    \/ \E topic \in Topics, msg \in Msgs : LiveInput(topic, msg)
    \/ \E e \in env.effects, msg \in Msgs : LiveEffect(e, msg)

InitLive ==
    /\ \E config \in (Configs \ {SelfLoopConfig}) \cup {SerialConfig, FanOutConfig} :
           Construct(config)
    /\ simulator_time = 0
    /\ node_timestep = TRUE

\* the steps of LiveInput and of LiveEffect, as the account shows them
InputDelivered ==
    env.inputs # {} /\ delivered' = [delivered EXCEPT !.inputs = @ + 1]

EffectDelivered ==
    env.effects # {} /\ delivered' = [delivered EXCEPT !.effects = @ + 1]

\* what is owed is delivered in the end: the data source publishes the input once its
\* future is done, a node that received a message emits its effects
SpecLive ==
    /\ InitLive
    /\ [][NextLive]_vars
    /\ WF_delivered(InputDelivered)
    /\ WF_delivered(EffectDelivered)

(***************************************************************************)
(* BagPlayer.timestep_reconfiguration, the driver of the reconfiguration   *)
(* test, with nodes that emit what they owe. env.inputs holds the messages *)
(* the driver has published and the executor has not yet delivered;        *)
(* callbacks run only while the driver spins. Orchestrator.reconfigure and *)
(* wait_until_reconfiguration_allowed are not part of the sources: they    *)
(* are modelled after their description.                                   *)
(***************************************************************************)

\* orchestrator_node.py line 195: if self.t == Time(seconds=5)
ReconfigureAt == 5
\* line 220: elif self.t == Time(seconds=10): exit(0)
EndAt == 10

\* X: A -> publish B, Y: B -> status (the models before the reconfiguration)
DriverConfig ==
    [models |-> << [name |-> "X",
                    effects |-> (TopicInput("A") :> <<TopicPublish("B")>>)],
                   [name |-> "Y",
                    effects |-> (TopicInput("B") :> <<StatusPublish>>)] >>,
     external |-> {"A"}]

\* X: A -> publish C, Y: C -> status (the models after the reconfiguration)
DriverConfigAfter ==
    [models |-> << [name |-> "X",
                    effects |-> (TopicInput("A") :> <<TopicPublish("C")>>)],
                   [name |-> "Y",
                    effects |-> (TopicInput("C") :> <<StatusPublish>>)] >>,
     external |-> {"A"}]

\* a driver step that calls a method of the orchestrator; an exception ends the driver
DriverCalls(o, op, arg, pc) ==
    /\ Handled(o, op, arg)
    /\ env' = [env EXCEPT !.effects = @ \cup StartedEffects(o)]
    /\ driver' = [driver EXCEPT !.pc = IF o.exc = "None" THEN pc ELSE "crashed"]
    /\ UNCHANGED <<delivered, names, tracker>>

\* a callback that runs while the driver spins
DriverSpins(o, op, arg, owed) ==
    /\ Handled(o, op, arg)
    /\ env' = [owed EXCEPT !.effects = @ \cup StartedEffects(o)]
    /\ UNCHANGED <<delivered, driver, names, tracker>>

\* the driver is inside spin_until_future_complete and the future is not done
Spinning ==
    \/ driver.pc \in {"spin_time", "spin_input"} /\ future # "done"
    \/ driver.pc = "spin_service"

\* line 191: f = self.orchestrator.wait_until_time_publish_allowed(self.t)
DriverOfferTime ==
    /\ driver.pc = "offer_time"
    /\ \E o \in {WaitUntilTimePublishAllowed(Self, driver.t)} :
           DriverCalls(o, "offer_time", NoArg, "spin_time")

\* lines 192-193: spin_until_future_complete(f) has returned; publish_time()
DriverPublishTime ==
    /\ driver.pc = "spin_time"
    /\ future = "done"
    /\ env' = [env EXCEPT !.inputs = @ \cup {"clock"}]
    /\ driver' = [driver EXCEPT !.pc = IF driver.t = ReconfigureAt THEN "spin_service"
                                       ELSE IF driver.t = EndAt THEN "exit"
                                       ELSE "offer_input"]
    /\ UNCHANGED <<node_models, external_input_topics_config, node_timestep, next_input,
                   simulator_time, graph, next_id, future, published, result, delivered,
                   names, tracker>>

\* line 223: f = self.orchestrator.wait_until_publish_allowed("input")
DriverOfferInput ==
    /\ driver.pc = "offer_input"
    /\ \E o \in {WaitUntilPublishAllowed(Self, "A")} :
           DriverCalls(o, "offer_input", "A", "spin_input")

\* lines 224-231: spin_until_future_complete(f) has returned; publish the input;
\* self.t += Duration(seconds=1)
DriverPublishInput ==
    /\ driver.pc = "spin_input"
    /\ future = "done"
    /\ env' = [env EXCEPT !.inputs = @ \cup {"A"}]
    /\ driver' = [pc |-> "offer_time", t |-> driver.t + 1]
    /\ UNCHANGED <<node_models, external_input_topics_config, node_timestep, next_input,
                   simulator_time, graph, next_id, future, published, result, delivered,
                   names, tracker>>

\* the executor delivers a message the driver has published
DriverDeliver(topic, msg) ==
    /\ Spinning
    /\ topic \in env.inputs
    /\ \E o \in {InterceptionSubscriptionCallback(Self, topic, msg)} :
           DriverSpins(o, "message", topic, [env EXCEPT !.inputs = @ \ {topic}])

\* the executor delivers an effect a node owes
DriverEffect(e, msg) ==
    /\ Spinning
    /\ e \in env.effects
    /\ \E o \in {IF e[3].type = "TopicPublish"
                  THEN InterceptionSubscriptionCallback(Self, e[3].output_topic, msg)
                  ELSE StatusCallback(Self, e[2])} :
           IF e[3].type = "TopicPublish"
           THEN DriverSpins(o, "message", e[3].output_topic,
                            [env EXCEPT !.effects = @ \ {e}])
           ELSE DriverSpins(o, "status", e[2], [env EXCEPT !.effects = @ \ {e}])

\* lines 196-208: wait_until_reconfiguration_allowed() returns a future that the driver
\* drops; the two service calls have been answered
DriverServiceDone ==
    /\ driver.pc = "spin_service"
    /\ driver' = [driver EXCEPT !.pc = "reconfigure"]
    /\ UNCHANGED <<node_models, external_input_topics_config, node_timestep, next_input,
                   simulator_time, graph, next_id, future, published, result, env,
                   delivered, names, tracker>>

\* Orchestrator.reconfigure(new_models): valid only with an empty graph and no offer
\* pending, a contract violation otherwise; it swaps the node models
Reconfigure(new_models) ==
    /\ IF Ids(graph) = {} /\ next_input.kind = "None"
       THEN /\ node_models' = new_models
            /\ result' = [NoCall EXCEPT !.op = "reconfigure"]
            /\ driver' = [pc |-> "offer_time", t |-> driver.t + 1]
       ELSE /\ node_models' = node_models
            /\ result' = [NoCall EXCEPT !.op = "reconfigure", !.exc = "ContractViolation"]
            /\ driver' = [driver EXCEPT !.pc = "crashed"]
    /\ UNCHANGED <<external_input_topics_config, node_timestep, next_input,
                   simulator_time, graph, next_id, future, published, env, delivered,
                   names, tracker>>

\* lines 212-219: self.orchestrator.reconfigure(load_models(...))
DriverReconfigure ==
    /\ driver.pc = "reconfigure"
    /\ Reconfigure(DriverConfigAfter.models)

NextDriver ==
    \/ DriverOfferTime
    \/ DriverPublishTime
    \/ DriverOfferInput
    \/ DriverPublishInput
    \/ \E topic \in Topics, msg \in Msgs : DriverDeliver(topic, msg)
    \/ \E e \in env.effects, msg \in Msgs : DriverEffect(e, msg)
    \/ DriverServiceDone
    \/ DriverReconfigure

\* BagPlayer.__init__ in mode "reconfiguration" (self.t = 0), on an orchestrator whose
\* clock is set
InitDriver ==
    /\ node_models = DriverConfig.models
    /\ external_input_topics_config = DriverConfig.external
    /\ next_input = NoInput
    /\ graph = EmptyGraph
    /\ next_id = 0
    /\ future = "None"
    /\ published = << >>
    /\ result = NoCall
    /\ env = NothingOwed
    /\ delivered = [inputs |-> 0, effects |-> 0]
    /\ driver = [pc |-> "offer_time", t |-> 0]
    /\ names = NoNames
    /\ tracker = NoTracker
    /\ simulator_time = 0
    /\ node_timestep = TRUE

SpecDriver == InitDriver /\ [][NextDriver]_vars

(***************************************************************************)
(* The interception naming. name_utils.py is not part of the sources:      *)
(* intercepted_name is modelled after its description, on names given as   *)
(* sequences of characters.                                                *)
(***************************************************************************)

\* intercepted_name(node, topic) = "/intercepted/" + node + "/sub" + topic
InterceptedNameWithoutNode(node, topic) ==
    <<"/", "i", "n", "t", "e", "r", "c", "e", "p", "t", "e", "d", "/">> \o <<"/", "s", "u", "b">> \o topic

InterceptedName(node, topic) ==
    <<"/", "i", "n", "t", "e", "r", "c", "e", "p", "t", "e", "d", "/">> \o node \o <<"/", "s", "u", "b">> \o topic

\* node names: A, B, and the names A/sub and n/A of nodes in a namespace
NameNodes ==
    {<<"A">>, <<"B">>, <<"A", "/", "s", "u", "b">>, <<"n", "/", "A">>}

\* a node name without "/", as the middleware accepts for a node
PlainName(node) == \A i \in DOMAIN node : node[i] # "/"

\* topics: /T, /U, /sub/T, /sub/U, /A, and U as orchestrator_node.py line 206 passes it
NameTopics ==
    {<<"/", "T">>, <<"/", "U">>, <<"/", "s", "u", "b", "/", "T">>, <<"/", "s", "u", "b", "/", "U">>, <<"/", "A">>, <<"U">>}

\* remapping_generation.py line 34, for two pairs of a node and a topic
InterceptNames ==
    /\ names.name = << >>
    /\ names' = [names EXCEPT !.name = <<InterceptedName(names.node[1], names.topic[1]),
                                         InterceptedName(names.node[2], names.topic[2])>>]
    /\ UNCHANGED <<node_models, external_input_topics_config, node_timestep, next_input,
                   simulator_time, graph, next_id, future, published, result, env,
                   delivered, driver, tracker>>

NextNames == InterceptNames

InitNames ==
    /\ node_models = ChainConfig.models
    /\ external_input_topics_config = ChainConfig.external
    /\ next_input = NoInput
    /\ graph = EmptyGraph
    /\ next_id = 0
    /\ future = "None"
    /\ published = << >>
    /\ result = NoCall
    /\ env = NothingOwed
    /\ delivered = [inputs |-> 0, effects |-> 0]
    /\ driver = NoDriver
    /\ simulator_time = None
    /\ node_timestep = FALSE
    /\ \E n1, n2 \in NameNodes, t1, t2 \in NameTopics :
           names = [node |-> <<n1, n2>>, topic |-> <<t1, t2>>, name |-> << >>]
    /\ tracker = NoTracker

SpecNames == InitNames /\ [][NextNames]_vars

(***************************************************************************)
(* __process on graphs that hold timer actions. __add_pending_timers_until *)
(* never inserts one (its list of timers stays empty), so that the graph   *)
(* is built here as its lines 190-195 build it for a timer that fires:     *)
(* one READY TimerCallbackAction per declared timer, inserted by           *)
(* __add_action_and_effects.                                               *)
(***************************************************************************)

RECURSIVE FiredTimerActions(_, _)
\* lines 190-192: a READY TimerCallbackAction at time t for every timer that node model
\* j and the ones behind it declare
FiredTimerActions(t, j) ==
    IF j > Len(node_models) THEN << >>
    ELSE LET periods == SortedSeq({c.period : c \in {d \in GetPossibleInputs(node_models[j]) :
                                                         d.type = "TimerInput"}})
         IN  [k \in DOMAIN periods |->
                 TimerCallbackAction("READY", GetName(node_models[j]), t,
                                     TimerInput(periods[k]), periods[k])]
             \o FiredTimerActions(t, j + 1)

\* the orchestrator with its clock at t and the timer actions for t in the graph
InitProcess ==
    /\ \E config \in {ChainConfig, TimerConfig} :
           /\ node_models = config.models
           /\ external_input_topics_config = config.external
    /\ simulator_time \in Times \ {0}
    /\ node_timestep = TRUE
    /\ next_input = NoInput
    /\ \E s \in {AddActions(Insertion(EmptyGraph, 0),
                              FiredTimerActions(simulator_time, 1), 1)} :
           graph = s.graph /\ next_id = s.next_id
    /\ future = "None"
    /\ published = << >>
    /\ result = NoCall
    /\ env = NothingOwed
    /\ delivered = [inputs |-> 0, effects |-> 0]
    /\ driver = NoDriver
    /\ names = NoNames
    /\ tracker = NoTracker

SpecProcess == InitProcess /\ [][NextSerial]_vars

(***************************************************************************)
(* ApproximateTimeSynchronizerTracker (ros_utils/message_filter.py), with  *)
(* callers on several threads. tracker holds the queues of the wrapped     *)
(* synchronizer, _was_called, the holder of _lock (0: free), and for each  *)
(* calling thread its position in test_input, its arguments, its local     *)
(* was_called and the value it returned; fired and seq are kept for        *)
(* observation: did the combined callback run inside this call's           *)
(* signalMessage, and the rank of this call's return among the returns (0  *)
(* while the call has not returned).                                       *)
(* ApproximateTimeSynchronizer is library code: it is modelled after its   *)
(* description, for a slop below the distance of two stamps.               *)
(***************************************************************************)

TrackerTopics == {"camera_info", "image"}
Stamps == {1, 2}
Threads == {1, 2}

\* the queue_size the tracker is constructed with (line 19)
QueueSize == 2

\* ApproximateTimeSynchronizer.add: queue the stamp on the topic, drop the oldest stamp
\* of a queue that is too long; if every other topic has a message of this stamp, run
\* the combined callback and take the matched messages off the queues
SynchronizerAdd(queues, topic, stamp) ==
    LET added == queues[topic] \cup {stamp}
        kept == IF Cardinality(added) > QueueSize THEN added \ {Min(added)} ELSE added
        q1 == [queues EXCEPT ![topic] = kept]
        match == /\ stamp \in kept
                 /\ \A other \in TrackerTopics \ {topic} : stamp \in q1[other]
    IN  IF match
        THEN [queues |-> [tp \in TrackerTopics |-> q1[tp] \ {stamp}], fired |-> TRUE]
        ELSE [queues |-> q1, fired |-> FALSE]

\* a variant that leaves the flag as the last call left it
FlagKept(flag) == flag

\* line 40: self._was_called = False
FlagAtStart(flag) == FALSE

TrackerStep ==
    UNCHANGED <<node_models, external_input_topics_config, node_timestep, next_input,
                simulator_time, graph, next_id, future, published, result, env,
                delivered, driver, names>>

\* a thread calls test_input(topic_name, msg)
TestInputCall(t, topic, stamp) ==
    /\ tracker.pc[t] = "idle"
    /\ tracker.calls < MaxCalls
    /\ tracker' = [tracker EXCEPT !.pc[t] = "lock", !.arg[t] = <<topic, stamp>>,
                                  !.fired[t] = FALSE, !.ret[t] = FALSE, !.seq[t] = 0,
                                  !.calls = @ + 1]
    /\ TrackerStep

\* line 39: with self._lock
TestInputAcquire(t) ==
    /\ tracker.pc[t] = "lock"
    /\ tracker.lock = 0
    /\ tracker' = [tracker EXCEPT !.pc[t] = "reset", !.lock = t]
    /\ TrackerStep

\* line 40
TestInputReset(t) ==
    /\ tracker.pc[t] = "reset"
    /\ tracker' = [tracker EXCEPT !.pc[t] = "signal",
                                  !.was_called = FlagAtStart(tracker.was_called)]
    /\ TrackerStep

\* line 41: signalMessage(msg) runs the synchronizer, which may run __callback (line 30)
TestInputSignal(t) ==
    /\ tracker.pc[t] = "signal"
    /\ \E r \in {SynchronizerAdd(tracker.queues, tracker.arg[t][1], tracker.arg[t][2])} :
           tracker' = [tracker EXCEPT !.pc[t] = "read",
                                      !.queues = r.queues,
                                      !.was_called = IF r.fired THEN TRUE ELSE @,
                                      !.fired[t] = r.fired]
    /\ TrackerStep

\* line 42: was_called = self._was_called
TestInputRead(t) ==
    /\ tracker.pc[t] = "read"
    /\ tracker' = [tracker EXCEPT !.pc[t] = "unlock", !.local[t] = tracker.was_called]
    /\ TrackerStep

\* the end of the with block and line 43: return was_called
TestInputReturn(t) ==
    /\ tracker.pc[t] = "unlock"
    /\ tracker' = [tracker EXCEPT !.pc[t] = "idle", !.lock = 0,
                                  !.ret[t] = tracker.local[t],
                                  !.returned = @ + 1,
                                  !.seq[t] = tracker.returned + 1]
    /\ TrackerStep

NextTracker ==
    \/ \E t \in Threads, topic \in TrackerTopics, stamp \in Stamps :
           TestInputCall(t, topic, stamp)
    \/ \E t \in Threads : TestInputAcquire(t)
    \/ \E t \in Threads : TestInputReset(t)
    \/ \E t \in Threads : TestInputSignal(t)
    \/ \E t \in Threads : TestInputRead(t)
    \/ \E t \in Threads : TestInputReturn(t)

\* ApproximateTimeSynchronizerTracker.__init__ (lines 19-27), no call made yet
InitTracker ==
    /\ node_models = ChainConfig.models
    /\ external_input_topics_config = ChainConfig.external
    /\ next_input = NoInput
    /\ graph = EmptyGraph
    /\ next_id = 0
    /\ future = "None"
    /\ published = << >>
    /\ result = NoCall
    /\ env = NothingOwed
    /\ delivered = [inputs |-> 0, effects |-> 0]
    /\ driver = NoDriver
    /\ names = NoNames
    /\ simulator_time = None
    /\ node_timestep = FALSE
    /\ tracker = [queues |-> [tp \in TrackerTopics |-> {}],
                  was_called |-> FALSE,
                  lock |-> 0,
                  pc |-> [t \in Threads |-> "idle"],
                  arg |-> [t \in Threads |-> <<"", 0>>],
                  local |-> [t \in Threads |-> FALSE],
                  fired |-> [t \in Threads |-> FALSE],
                  ret |-> [t \in Threads |-> FALSE],
                  seq |-> [t \in Threads |-> 0],
                  calls |-> 0,
                  returned |-> 0]

SpecTracker == InitTracker /\ [][NextTracker]_vars

---------------------------------------------------------------------------
(* Properties *)

Running(g) == {n \in Ids(g) : g.node[n].state = "RUNNING"}

\* the actions the latest call inserted when it granted an offer
Granted == result.grant.offer
NewActions == Ids(graph) \ Ids(result.grant.graph)

\* C2: for every node at most one action at that node is RUNNING
OneRunningPerNode ==
    \A n1, n2 \in Running(graph) :
        graph.node[n1].node = graph.node[n2].node => n1 = n2

\* an action is RUNNING and a later READY action at the same node waits for it
RunningWithReadySibling ==
    \E n1, n2 \in Ids(graph) :
        /\ graph.node[n1].state = "RUNNING"
        /\ graph.node[n2].state = "READY"
        /\ graph.node[n1].node = graph.node[n2].node
        /\ HasSuccessor(graph, n2, n1)
        /\ graph.edge[<<n2, n1>>] = "SAME_NODE"

\* C3: for every topic at most one RUNNING action declares TopicPublish of that topic
OneRunningPublisherPerTopic ==
    \A topic \in Topics : \A n1, n2 \in Running(graph) :
        (/\ Declares(graph.node[n1], TopicPublish(topic))
         /\ Declares(graph.node[n2], TopicPublish(topic))) => n1 = n2

\* C4: when a clock offer for t is granted the graph holds no action with a timestamp
\* earlier than t
ClockGrantedAfterCompletion ==
    Granted.kind = "FutureTimestep" =>
        \A n \in Ids(result.grant.graph) :
            ~(result.grant.graph.node[n].timestamp < Granted.time)

\* C4, amended: offer_time itself grants only with no WAITING and no RUNNING action in
\* the graph, and a __process that returns leaves no clock offer pending
ClockGrantedAtOnceWhenIdle ==
    /\ (result.op = "offer_time" /\ Granted.kind = "FutureTimestep") =>
           \A n \in Ids(result.grant.graph) :
               result.grant.graph.node[n].state \notin {"WAITING", "RUNNING"}
    /\ (result.processed /\ result.exc = "None") => next_input.kind # "FutureTimestep"

\* offer_time granted a clock offer at once and moved a clock that was set
ClockMovedAtOnce ==
    /\ result.op = "offer_time"
    /\ Granted.kind = "FutureTimestep"
    /\ result.grant.time # None
    /\ simulator_time # result.grant.time

\* C5: a data offer on a topic is granted only with no WAITING or READY RxAction on the
\* topic in the graph, and when __process returns with a data offer on a topic pending,
\* some RxAction on the topic is WAITING or READY
DataGrantedWhenTopicFree ==
    /\ Granted.kind = "FutureInput" =>
           \A n \in Ids(result.grant.graph) :
               ~(/\ result.grant.graph.node[n].kind = "RxAction"
                 /\ result.grant.graph.node[n].topic = Granted.topic
                 /\ result.grant.graph.node[n].state \in {"WAITING", "READY"})
    /\ (result.processed /\ result.exc = "None" /\ next_input.kind = "FutureInput") =>
           \E n \in Ids(graph) :
               /\ graph.node[n].kind = "RxAction"
               /\ graph.node[n].topic = next_input.topic
               /\ graph.node[n].state \in {"WAITING", "READY"}

\* __process granted a data offer while another action was still WAITING
DataGrantedByProcess ==
    /\ result.processed
    /\ Granted.kind = "FutureInput"
    /\ \E n \in Ids(result.grant.graph) : result.grant.graph.node[n].state = "WAITING"

\* C6: an offer made while an offer is pending fails and leaves the pending offer, its
\* future, simulator_time and the graph as they were
OfferWhilePendingFails ==
    [][(next_input.kind # "None" /\ result'.op \in {"offer_input", "offer_time"}) =>
           /\ result'.exc = "RuntimeError"
           /\ UNCHANGED <<next_input, future, simulator_time, graph, next_id>>]_vars

\* offer_time has failed on a pending data offer
TimeOfferRefused ==
    /\ result.op = "offer_time"
    /\ result.exc = "RuntimeError"
    /\ next_input.kind = "FutureInput"
    /\ future = "pending"

\* C7: offer_input with simulator_time None fails, registers no offer, inserts no action
DataOfferNeedsTime ==
    [][(simulator_time = None /\ result'.op = "offer_input") =>
           /\ result'.exc = "RuntimeError"
           /\ UNCHANGED <<next_input, future, simulator_time, graph, next_id>>]_vars

\* offer_input has failed for want of a simulator_time
DataOfferRefusedWithoutTime ==
    /\ result.op = "offer_input"
    /\ result.exc = "RuntimeError"
    /\ simulator_time = None
    /\ next_input.kind = "None"

\* C8: offer_time(t) with no offer pending and no WAITING or RUNNING action returns with
\* simulator_time = t, the future done and no offer pending, also on a new orchestrator
ClockOfferGrantedAtOnce ==
    [][(/\ result'.op = "offer_time"
        /\ next_input.kind = "None"
        /\ \A n \in Ids(graph) : graph.node[n].state \notin {"WAITING", "RUNNING"}) =>
           /\ result'.exc = "None"
           /\ result'.grant.offer.kind = "FutureTimestep"
           /\ simulator_time' = result'.grant.offer.time
           /\ future' = "done"
           /\ next_input'.kind = "None"]_vars

\* C9: offer_input with no offer pending and simulator_time set is granted at once when
\* the graph has no RUNNING and no WAITING action, and stays pending otherwise
DataOfferGrantedAtOnceWhenIdle ==
    [][(/\ result'.op = "offer_input"
        /\ next_input.kind = "None"
        /\ simulator_time # None) =>
           /\ result'.exc = "None"
           /\ IF \A n \in Ids(graph) : graph.node[n].state \notin {"WAITING", "RUNNING"}
              THEN /\ result'.grant.offer.kind = "FutureInput"
                   /\ future' = "done"
                   /\ next_input'.kind = "None"
              ELSE /\ result'.grant.offer.kind = "None"
                   /\ future' = "pending"
                   /\ next_input'.kind = "FutureInput"
                   /\ graph' = graph]_vars

\* offer_input granted a data offer at once and it inserted actions
DataGrantedAtOnce ==
    /\ result.op = "offer_input"
    /\ Granted.kind = "FutureInput"
    /\ future = "done"
    /\ next_input.kind = "None"
    /\ NewActions # {}

\* the number of actions at this node inserted by the grant, of those in the set
InsertedAt(name, ids) == Cardinality({n \in ids : graph.node[n].node = name})

\* C10: granting a data offer on a topic inserts exactly one action for every node model
\* that declares TopicInput of the topic, a WAITING RxAction at simulator_time without
\* payload, and no action for any other node, before the future is done
GrantInsertsSubscribersOnly ==
    Granted.kind = "FutureInput" =>
        /\ future = "done"
        /\ \A n \in NewActions :
               /\ graph.node[n].kind = "RxAction"
               /\ graph.node[n].state = "WAITING"
               /\ graph.node[n].timestamp = result.grant.time
               /\ graph.node[n].data = NoData
        /\ \A j \in DOMAIN node_models :
               InsertedAt(GetName(node_models[j]), NewActions) =
                   IF TopicInput(Granted.topic) \in GetPossibleInputs(node_models[j])
                   THEN 1 ELSE 0

\* C10, amended: the grant inserts exactly one RxAction on the topic for every node model
\* that declares TopicInput of the topic and none on the topic for any other node, each
\* WAITING at simulator_time without payload; the other actions it inserts are the
\* WAITING RxActions of the downstream subscribers, on other topics
GrantInsertsSubscribersOnTopic ==
    Granted.kind = "FutureInput" =>
        /\ future = "done"
        /\ \A n \in NewActions :
               /\ graph.node[n].kind = "RxAction"
               /\ graph.node[n].state = "WAITING"
               /\ graph.node[n].timestamp = result.grant.time
               /\ graph.node[n].data = NoData
        /\ \A j \in DOMAIN node_models :
               InsertedAt(GetName(node_models[j]),
                          {n \in NewActions : graph.node[n].topic = Granted.topic}) =
                   IF TopicInput(Granted.topic) \in GetPossibleInputs(node_models[j])
                   THEN 1 ELSE 0

\* a grant inserted actions for two subscribers of the offered topic
GrantInsertedTwoSubscribers ==
    /\ Granted.kind = "FutureInput"
    /\ Cardinality({n \in NewActions : graph.node[n].topic = Granted.topic}) = 2

\* C11: a step grants a clock offer for t with the timers added against the old
\* simulator_time, simulator_time = t and the future done; a step that offers a clock
\* value, or has a clock offer pending, and does not grant it leaves simulator_time as it
\* was and the future not done
ClockGrantInOrder ==
    [][IF result'.grant.offer.kind = "FutureTimestep"
       THEN /\ result'.grant.time = simulator_time
            /\ simulator_time' = result'.grant.offer.time
            /\ future' = "done"
            /\ next_input'.kind = "None"
       ELSE (result'.op = "offer_time" \/ next_input.kind = "FutureTimestep") =>
                /\ simulator_time' = simulator_time
                /\ future' # "done"]_vars

\* __process granted a pending clock offer and the clock moved
ClockMovedByProcess ==
    /\ result.processed
    /\ Granted.kind = "FutureTimestep"
    /\ simulator_time = Granted.time
    /\ result.grant.time # Granted.time

\* the timers the node models declare, as <<node, period>>
DeclaredTimers ==
    UNION {{<<GetName(node_models[j]), c.period>> :
                c \in {d \in GetPossibleInputs(node_models[j]) : d.type = "TimerInput"}} :
           j \in DOMAIN node_models}

\* the multiples of period in (last, t]
Fires(last, t, period) == {k \in 1 .. t : last < k * period /\ k * period <= t}

\* C12: a clock grant for t with previous time last inserts, for every declared timer,
\* exactly one READY TimerCallbackAction of that node with timestamp t if the timer's
\* next fire after last is <= t, and none otherwise
TimerExpansion ==
    (Granted.kind = "FutureTimestep" /\ result.grant.time # None) =>
        \A timer \in DeclaredTimers :
            Cardinality({n \in NewActions :
                             /\ graph.node[n].kind = "TimerCallbackAction"
                             /\ graph.node[n].node = timer[1]
                             /\ graph.node[n].period = timer[2]
                             /\ graph.node[n].timestamp = Granted.time
                             /\ graph.node[n].state = "READY"}) =
                IF Fires(result.grant.time, Granted.time, timer[2]) # {} THEN 1 ELSE 0

\* C13: offer_time(t) that would be granted fails exactly when some declared timer has
\* to fire more than once in (simulator_time, t], and then it leaves the graph and
\* simulator_time as they were
StepTooLargeFails ==
    [][\A t \in Times :
           (/\ result'.op = "offer_time"
            /\ next_input.kind = "None"
            /\ simulator_time # None
            /\ \A n \in Ids(graph) : graph.node[n].state \notin {"WAITING", "RUNNING"}
            /\ OfferTime(t)) =>
               IF \E timer \in DeclaredTimers :
                      Cardinality(Fires(simulator_time, t, timer[2])) > 1
               THEN /\ result'.exc = "RuntimeError"
                    /\ UNCHANGED <<graph, next_id, simulator_time>>
               ELSE result'.exc = "None"]_vars

\* C14: a message attributed to a RUNNING action whose cause declares a publication on
\* another topic as well leaves that action in the graph
RemovedAfterAllEffects ==
    [][\A topic \in Topics, msg \in Msgs :
           LET a == FindRunningAction(graph, topic)
           IN  (/\ result'.op = "message"
                /\ a # None
                /\ \E other \in Topics \ {topic} :
                       Declares(graph.node[a], TopicPublish(other))
                /\ TopicMessage(topic, msg)) =>
                   a \in Ids(graph')]_vars

\* C15: a completion that repeats the one the latest call consumed (the same node's
\* status, or a message on the same topic, which is no external input) raises
\* ActionNotFoundError and leaves the graph as it was
DuplicateCompletionRaises ==
    [][/\ \A node \in NodeNames :
              (/\ result.op = "status"
               /\ result.arg = node
               /\ result'.op = "status"
               /\ StatusMessage(node)) =>
                  (result'.exc = "ActionNotFoundError" /\ graph' = graph)
       /\ \A topic \in Topics \ (external_input_topics_config \cup {"clock"}), msg \in Msgs :
              (/\ result.op = "message"
               /\ result.arg = topic
               /\ result'.op = "message"
               /\ TopicMessage(topic, msg)) =>
                  (result'.exc = "ActionNotFoundError" /\ graph' = graph)]_vars

\* a RUNNING action whose cause declares the publication of this topic
RunningPublishers(topic) ==
    {n \in Running(graph) : Declares(graph.node[n], TopicPublish(topic))}

\* C16: a message on a topic that no RUNNING action publishes and that is no external
\* input raises ActionNotFoundError and changes neither the graph nor the pending offer
UnknownMessageRaises ==
    [][\A topic \in Topics, msg \in Msgs :
           (/\ result'.op = "message"
            /\ RunningPublishers(topic) = {}
            /\ topic \notin external_input_topics_config
            /\ TopicMessage(topic, msg)) =>
               /\ result'.exc = "ActionNotFoundError"
               /\ UNCHANGED <<graph, next_id, next_input, future, simulator_time,
                              published>>]_vars

\* C16, amended: the same for every topic but clock, whose messages are ignored
UnknownDataMessageRaises ==
    [][\A topic \in Topics, msg \in Msgs :
           (/\ result'.op = "message"
            /\ RunningPublishers(topic) = {}
            /\ topic \notin external_input_topics_config
            /\ TopicMessage(topic, msg)) =>
               IF topic = "clock"
               THEN /\ result'.exc = "None"
                    /\ ~result'.processed
                    /\ UNCHANGED <<graph, next_id, next_input, future, simulator_time,
                                   published>>
               ELSE /\ result'.exc = "ActionNotFoundError"
                    /\ UNCHANGED <<graph, next_id, next_input, future, simulator_time,
                                   published>>]_vars

\* a message was refused while an action was RUNNING and an offer was pending
MessageRefusedWhileRunning ==
    /\ result.op = "message"
    /\ result.exc = "ActionNotFoundError"
    /\ Running(graph) # {}
    /\ next_input.kind # "None"

\* C17: a message on an external input topic that no RUNNING action publishes, with no
\* WAITING RxAction on the topic in the graph, raises and __process is not run
InputWithoutReceiverRaises ==
    [][\A topic \in Topics, msg \in Msgs :
           (/\ result'.op = "message"
            /\ topic \in external_input_topics_config
            /\ RunningPublishers(topic) = {}
            /\ ~ \E n \in Ids(graph) : /\ graph.node[n].kind = "RxAction"
                                       /\ graph.node[n].topic = topic
                                       /\ graph.node[n].state = "WAITING"
            /\ TopicMessage(topic, msg)) =>
               /\ result'.exc # "None"
               /\ ~result'.processed]_vars

\* the WAITING RxActions on this topic
WaitingOn(topic) ==
    {n \in Ids(graph) : /\ graph.node[n].kind = "RxAction"
                        /\ graph.node[n].topic = topic
                        /\ graph.node[n].state = "WAITING"}

\* C18: a message on an external input topic that no RUNNING action publishes is buffered
\* into exactly the WAITING RxActions on the topic with the least timestamp: they are
\* READY (or already started by __process) with the message as payload, the later ones
\* are as they were
InputBufferedAtEarliest ==
    [][\A topic \in Topics \ {"clock"}, msg \in Msgs :
           (/\ result'.op = "message"
            /\ topic \in external_input_topics_config
            /\ RunningPublishers(topic) = {}
            /\ WaitingOn(topic) # {}
            /\ TopicMessage(topic, msg)) =>
               LET earliest == Min({graph.node[n].timestamp : n \in WaitingOn(topic)})
               IN  \A n \in WaitingOn(topic) :
                       /\ n \in Ids(graph')
                       /\ IF graph.node[n].timestamp = earliest
                          THEN /\ graph'.node[n].state \in {"READY", "RUNNING"}
                               /\ graph'.node[n].data = msg
                          ELSE graph'.node[n] = graph.node[n]]_vars

StatusRemovesOneRunning ==
    [][\A node \in NodeNames :
           (result'.op = "status" /\ StatusMessage(node)) =>
               LET candidates == {n \in Running(graph) :
                                      /\ graph.node[n].node = node
                                      /\ Declares(graph.node[n], StatusPublish)}
               IN  IF candidates = {}
                   THEN /\ result'.exc = "ActionNotFoundError"
                        /\ UNCHANGED <<graph, next_id, next_input, future, simulator_time,
                                       published>>
                   ELSE /\ result'.exc = "None"
                        /\ \E a \in candidates : Ids(graph) \ Ids(graph') = {a}]_vars

\* a status message removed an action and left another action of the same node
StatusRemovedOneOfTwo ==
    /\ result.op = "status"
    /\ result.exc = "None"
    /\ \E n \in Ids(graph) : graph.node[n].node = result.arg
    /\ Cardinality(Ids(graph)) = next_id - 1

\* C21: the constraint graph is acyclic in every reachable state: no self-loop and no
\* directed cycle, for every node-model set (one with a node that publishes a topic it
\* subscribes included); every non-empty set of actions has a member without an edge
\* into the set
GraphAcyclic ==
    \A S \in SUBSET Ids(graph) \ {{}} :
        \E n \in S : \A m \in S : <<n, m>> \notin DOMAIN graph.edge

\* C22: every WAITING RxAction inserted as downstream effect of an action that is still
\* in the graph has an edge to that action, and the edge is typed CAUSALITY
CausalityEdgeKept ==
    \A r \in Ids(graph) :
        (/\ graph.node[r].kind = "RxAction"
         /\ graph.node[r].state = "WAITING"
         /\ graph.node[r].parent \in Ids(graph)) =>
            /\ <<r, graph.node[r].parent>> \in DOMAIN graph.edge
            /\ graph.edge[<<r, graph.node[r].parent>>] = "CAUSALITY"

\* C23: fan-out. Every action is published exactly once, in the step that makes it
\* RUNNING, on the interception topic of its node and topic and with the payload it
\* holds; the payload is the message of the step that buffered the action, and is kept;
\* a RUNNING action is never started again; and a data offer on a topic is granted only
\* when every RxAction on the topic in the graph is RUNNING, that is published. For one
\* message on A with subscribers X and Y: one publication for X and one for Y, both
\* carrying the message, before the next offer on A is granted.
FanOutPublishedOnce ==
    [][LET started == {n \in Ids(graph') :
                           /\ graph'.node[n].state = "RUNNING"
                           /\ (n \in Ids(graph) => graph.node[n].state # "RUNNING")}
           new == SubSeq(published', Len(published) + 1, Len(published'))
       IN  /\ Len(published') = Len(published) + Cardinality(started)
           /\ SubSeq(published', 1, Len(published)) = published
           /\ \A n \in started :
                  Cardinality({i \in DOMAIN new :
                                   new[i] = [node |-> graph'.node[n].node,
                                             topic |-> graph'.node[n].topic,
                                             data |-> graph'.node[n].data]}) = 1
           /\ \A n \in Ids(graph) \cap Ids(graph') :
                  /\ graph.node[n].state = "RUNNING" => graph'.node[n].state = "RUNNING"
                  /\ graph.node[n].state # "WAITING" =>
                         graph'.node[n].data = graph.node[n].data
                  /\ (graph.node[n].state = "WAITING" /\ graph'.node[n].state # "WAITING") =>
                         /\ result'.op = "message"
                         /\ result'.arg = graph.node[n].topic
                         /\ \E msg \in SerialMsgs :
                                /\ TopicMessage(result'.arg, msg)
                                /\ graph'.node[n].data = msg
           /\ result'.grant.offer.kind = "FutureInput" =>
                  \A n \in Ids(result'.grant.graph) :
                      (/\ result'.grant.graph.node[n].kind = "RxAction"
                       /\ result'.grant.graph.node[n].topic = result'.grant.offer.topic) =>
                          result'.grant.graph.node[n].state = "RUNNING"]_vars

\* a message on A was published once to X and once to Y, and then the call granted the
\* next offer on A
FanOutBeforeNextGrant ==
    /\ node_models = FanOutConfig.models
    /\ result.op = "message"
    /\ result.arg = "A"
    /\ Granted = FutureInput("A")
    /\ published = << [node |-> "X", topic |-> "A", data |-> "m2"],
                      [node |-> "Y", topic |-> "A", data |-> "m2"] >>
    /\ \A n \in Ids(result.grant.graph) : result.grant.graph.node[n].state = "RUNNING"
    /\ Cardinality(Ids(graph)) = 4

\* C24: same-topic serialization. At most one RUNNING action declares the publication of
\* a topic, so that a publisher inserted later is not RUNNING while the earlier one is;
\* of two RxActions of a node on a topic, caused by publishers inserted in that order,
\* the later is not published while the earlier is in the graph; and an action leaves
\* the graph only when it is RUNNING, that is after its publication.
SameTopicSerialized ==
    [][/\ \A n1, n2 \in Ids(graph') :
              (/\ graph'.node[n1].state = "RUNNING"
               /\ graph'.node[n2].state = "RUNNING"
               /\ \E topic \in Topics :
                      /\ Declares(graph'.node[n1], TopicPublish(topic))
                      /\ Declares(graph'.node[n2], TopicPublish(topic))) => n1 = n2
       /\ \A r1, r2 \in Ids(graph') :
              (/\ graph'.node[r1].kind = "RxAction"
               /\ graph'.node[r2].kind = "RxAction"
               /\ graph'.node[r1].node = graph'.node[r2].node
               /\ graph'.node[r1].topic = graph'.node[r2].topic
               /\ graph'.node[r1].parent # None
               /\ graph'.node[r1].parent < graph'.node[r2].parent) =>
                  graph'.node[r2].state # "RUNNING"
       /\ \A n \in Ids(graph) \ Ids(graph') : graph.node[n].state = "RUNNING"]_vars

\* P1 and P2 were started in this order and S has received the message of P1, then
\* that of P2
SerializedBothReceived ==
    /\ node_models = SerialConfig.models
    /\ Len(published) = 4
    /\ published[1].node = "P1"
    /\ published[2] = [node |-> "S", topic |-> "T", data |-> "m1"]
    /\ published[3].node = "P2"
    /\ published[4] = [node |-> "S", topic |-> "T", data |-> "m2"]
    /\ \E n \in Ids(graph) : graph.node[n].state = "RUNNING" /\ graph.node[n].parent = 2

\* C25: liveness. With a data source that publishes every granted input and nodes that
\* emit every effect declared for a RUNNING action, no call raises ActionNotFoundError,
\* every pending offer is granted in the end and the graph is empty again and again,
\* for every node-model set (causes with several topic publications included)
OfferedInputsComplete ==
    /\ [](result.exc # "ActionNotFoundError")
    /\ (future = "pending") ~> (future = "done")
    /\ []<>(Ids(graph) = {})

\* C26: the driver reaches its call of reconfigure only with an empty graph and no offer
\* pending, the state in which reconfigure takes effect
ReconfigureReachedWhenIdle ==
    driver.pc = "reconfigure" => (Ids(graph) = {} /\ next_input.kind = "None")

SimulatorTimeNondecreasing ==
    [][(result'.grant.offer.kind = "FutureTimestep" /\ simulator_time # None) =>
           simulator_time' >= simulator_time]_vars

\* C29: when __process has returned, every READY action in the graph has an edge to
\* another action, and an offer that is still pending cannot be granted: it is a data
\* offer on a topic with a WAITING or READY RxAction
ProcessLeavesNothingToStart ==
    (result.processed /\ result.exc = "None") =>
        /\ \A n \in Ids(graph) :
               graph.node[n].state = "READY" =>
                   \E m \in Ids(graph) : <<n, m>> \in DOMAIN graph.edge
        /\ next_input.kind # "None" =>
               /\ next_input.kind = "FutureInput"
               /\ \E n \in Ids(graph) :
                      /\ graph.node[n].kind = "RxAction"
                      /\ graph.node[n].topic = next_input.topic
                      /\ graph.node[n].state \in {"WAITING", "READY"}

\* __process has returned and left a READY action that waits for a RUNNING one
ProcessLeftBlockedReady ==
    /\ result.processed
    /\ result.exc = "None"
    /\ \E n, m \in Ids(graph) :
           /\ graph.node[n].state = "READY"
           /\ graph.node[m].state = "RUNNING"
           /\ <<n, m>> \in DOMAIN graph.edge

\* C30: the loop of __process removes no action and no edge and changes no payload: of
\* the graph it began with, every action and every edge is in the graph when the call
\* returns; the only actions it has changed are READY actions without an edge to
\* another action, now RUNNING, and its publications are exactly their payloads; and
\* actions leave the graph only in the topic-message and status callbacks
ProcessFrame ==
    [][/\ result'.processed =>
              LET pre == result'.pre
                  free == {n \in Ids(pre) :
                               /\ pre.node[n].state = "READY"
                               /\ \A m \in Ids(pre) : <<n, m>> \notin DOMAIN pre.edge}
                  changed == {n \in Ids(pre) : graph'.node[n] # pre.node[n]}
                  new == SubSeq(published', Len(published) + 1, Len(published'))
              IN  /\ Ids(pre) \subseteq Ids(graph')
                  /\ \A e \in DOMAIN pre.edge :
                         e \in DOMAIN graph'.edge /\ graph'.edge[e] = pre.edge[e]
                  /\ changed \subseteq free
                  /\ \A n \in changed :
                         graph'.node[n] = [pre.node[n] EXCEPT !.state = "RUNNING"]
                  /\ SubSeq(published', 1, Len(published)) = published
                  /\ Len(new) = Cardinality(changed)
                  /\ \A n \in changed :
                         \E i \in DOMAIN new : new[i] = [node |-> pre.node[n].node,
                                                          topic |-> pre.node[n].topic,
                                                          data |-> pre.node[n].data]
       /\ ~result'.processed => published' = published
       /\ Ids(graph) \ Ids(graph') # {} => result'.op \in {"message", "status"}]_vars

\* a status callback removed an action and its __process started the READY action that
\* waited for it
StatusStartedBlockedAction ==
    /\ result.op = "status"
    /\ result.processed
    /\ Len(published) >= 2
    /\ \E n \in Ids(graph) :
           /\ graph.node[n].state = "RUNNING"
           /\ graph.node[n].node = result.arg
           /\ published[Len(published)] = [node |-> graph.node[n].node,
                                           topic |-> graph.node[n].topic,
                                           data |-> graph.node[n].data]

\* C31: action lifecycle. In every step an action that stays in the graph keeps its
\* state or moves forward, WAITING -> READY when the callback buffers the message and
\* READY -> RUNNING in the loop of __process that follows, never backwards and never to
\* RUNNING from an action that was not READY when __process began; the payload is set
\* in the WAITING -> READY transition and in no other, so that an RxAction has no
\* payload exactly while it is WAITING
LifecycleForward ==
    [][/\ \A n \in Ids(graph) \cap Ids(graph') :
              LET a == graph.node[n]
                  b == graph'.node[n]
                  mid == IF result'.processed /\ n \in Ids(result'.pre)
                         THEN result'.pre.node[n] ELSE b
              IN  /\ \/ mid = a
                     \/ /\ a.state = "WAITING"
                        /\ a.data = NoData
                        /\ mid.data # NoData
                        /\ mid = [a EXCEPT !.state = "READY", !.data = mid.data]
                  /\ \/ b = mid
                     \/ /\ mid.state = "READY"
                        /\ b = [mid EXCEPT !.state = "RUNNING"]
       /\ \A n \in Ids(graph') :
              graph'.node[n].kind = "RxAction" =>
                  (graph'.node[n].state = "WAITING" <=> graph'.node[n].data = NoData)
       /\ \A n \in Ids(graph') \ Ids(graph) :
              graph'.node[n].state = (IF graph'.node[n].kind = "RxAction"
                                      THEN "WAITING" ELSE "READY")]_vars

\* a message callback buffered its message into a WAITING action, READY when __process
\* began, and __process made that action RUNNING
BufferedThenStarted ==
    /\ result.op = "message"
    /\ result.processed
    /\ \E n \in Ids(graph) \cap Ids(result.pre) :
           /\ graph.node[n].topic = result.arg
           /\ result.pre.node[n].state = "READY"
           /\ result.pre.node[n].data \in Msgs
           /\ graph.node[n] = [result.pre.node[n] EXCEPT !.state = "RUNNING"]

\* C32: between any two actions at the same node that are both in the graph there is an
\* edge of type SAME_NODE from the later-inserted one to the earlier-inserted one
SameNodeEdgeTyped ==
    \A n1, n2 \in Ids(graph) :
        (n1 < n2 /\ graph.node[n1].node = graph.node[n2].node) =>
            /\ <<n2, n1>> \in DOMAIN graph.edge
            /\ graph.edge[<<n2, n1>>] = "SAME_NODE"

\* C32, amended: between any two actions at the same node there is an edge from the
\* later-inserted one to the earlier-inserted one. It is typed SAME_TOPIC when the later
\* one publishes the topic the earlier one receives, else CAUSALITY when the later one
\* was inserted as an effect of the earlier one, else SAME_NODE
SameNodeOrdered ==
    \A n1, n2 \in Ids(graph) :
        (n1 < n2 /\ graph.node[n1].node = graph.node[n2].node) =>
            /\ <<n2, n1>> \in DOMAIN graph.edge
            /\ graph.edge[<<n2, n1>>] =
                   IF /\ graph.node[n1].kind = "RxAction"
                      /\ \E i \in DOMAIN node_models :
                             /\ node_models[i].name = graph.node[n2].node
                             /\ \E k \in DOMAIN node_models[i].effects[graph.node[n2].cause] :
                                    node_models[i].effects[graph.node[n2].cause][k]
                                        = TopicPublish(graph.node[n1].topic)
                   THEN "SAME_TOPIC"
                   ELSE IF graph.node[n2].parent = n1 THEN "CAUSALITY"
                   ELSE "SAME_NODE"

\* three actions at one node, the edges between them typed in the three ways
SameNodeThreeTypes ==
    /\ node_models = LoopbackConfig.models
    /\ Ids(graph) = {1, 2, 3}
    /\ graph.edge[<<2, 1>>] = "SAME_TOPIC"
    /\ graph.edge[<<3, 2>>] = "CAUSALITY"
    /\ graph.edge[<<3, 1>>] = "SAME_NODE"

RECURSIVE ReachBy(_, _, _)
\* the actions reached from the set S along edges of one type
ReachBy(g, S, type) ==
    LET T == S \cup {m \in Ids(g) : \E n \in S : /\ <<n, m>> \in DOMAIN g.edge
                                                  /\ g.edge[<<n, m>>] = type}
    IN  IF T = S THEN S ELSE ReachBy(g, T, type)

PublisherAfterEarlierReceivers ==
    \A x, r \in Ids(graph) :
        (/\ r < x
         /\ graph.node[r].kind = "RxAction"
         /\ \E i \in DOMAIN node_models :
                /\ node_models[i].name = graph.node[x].node
                /\ \E k \in DOMAIN node_models[i].effects[graph.node[x].cause] :
                       node_models[i].effects[graph.node[x].cause][k]
                           = TopicPublish(graph.node[r].topic)) =>
            graph.node[x].state # "RUNNING"

\* the action of P2 holds its message and is kept READY by the RUNNING receiver of P1's
\* message on T
PublisherHeldByRunningReceiver ==
    /\ node_models = SerialConfig.models
    /\ \E x, r \in Ids(graph) :
           /\ r < x
           /\ graph.node[x].node = "P2"
           /\ graph.node[x].state = "READY"
           /\ graph.node[r].node = "S"
           /\ graph.node[r].state = "RUNNING"
           /\ <<x, r>> \in DOMAIN graph.edge
           /\ graph.edge[<<x, r>>] = "SAME_TOPIC"

\* C36: __process sets a READY TimerCallbackAction without an edge to another action
\* RUNNING, publishes nothing for it and goes on with the remaining actions: the call
\* raises nothing and leaves no READY action without an edge to another action
TimerStartedWithoutPublication ==
    [][(/\ result'.processed
        /\ \E n \in Ids(result'.pre) :
               /\ result'.pre.node[n].kind = "TimerCallbackAction"
               /\ result'.pre.node[n].state = "READY"
               /\ \A m \in Ids(result'.pre) : <<n, m>> \notin DOMAIN result'.pre.edge) =>
           /\ result'.exc = "None"
           /\ \A n \in Ids(result'.pre) :
                  (/\ result'.pre.node[n].state = "READY"
                   /\ \A m \in Ids(result'.pre) : <<n, m>> \notin DOMAIN result'.pre.edge) =>
                      /\ graph'.node[n].state = "RUNNING"
                      /\ result'.pre.node[n].kind = "TimerCallbackAction" =>
                             \A i \in DOMAIN published' :
                                 i > Len(published) =>
                                     published'[i].node # result'.pre.node[n].node]_vars

\* C37: inserting an action terminates for every node-model set, one with a cycle in the
\* declared data flow included: no call ends with the recursion of
\* __add_action_and_effects cut off by the interpreter's recursion limit
InsertionTerminates ==
    result.exc # "RecursionError"

\* C38: in every state between callbacks a graph without a RUNNING and without a
\* WAITING action is empty: the idle test of the immediate grants is the test for an
\* empty graph
IdleGraphIsEmpty ==
    (\A n \in Ids(graph) : graph.node[n].state \notin {"RUNNING", "WAITING"}) =>
        Ids(graph) = {}

\* C39: per-node FIFO. An action is not RUNNING while an action of the same node that
\* was inserted before it is in the graph; an action leaves the graph only when it is
\* RUNNING, so that the actions of a node become RUNNING in the order of their insertion
PerNodeFifo ==
    [][/\ \A n1, n2 \in Ids(graph') :
              (n1 < n2 /\ graph'.node[n1].node = graph'.node[n2].node) =>
                  graph'.node[n2].state # "RUNNING"
       /\ \A n \in Ids(graph) \ Ids(graph') : graph.node[n].state = "RUNNING"
       /\ \A n \in Ids(graph') \ Ids(graph) : \A m \in Ids(graph) : m < n]_vars

\* the second action of Y held its message while the first was RUNNING, and the status
\* of Y that completed the first has started it
SecondActionOfNodeStarted ==
    /\ node_models = FanOutConfig.models
    /\ result.op = "status"
    /\ result.arg = "Y"
    /\ \E n \in Ids(result.pre) :
           /\ result.pre.node[n].node = "Y"
           /\ result.pre.node[n].state = "READY"
           /\ n \in Ids(graph)
           /\ graph.node[n].state = "RUNNING"
           /\ \A m \in Ids(graph) : graph.node[m].node = "Y" => m = n
    /\ Cardinality({i \in DOMAIN published : published[i].node = "Y"}) = 2

\* C40: test_input returns true exactly when the combined callback ran inside this
\* call's signalMessage: a callback that ran in an earlier call, or in the call of
\* another thread, never makes a call return true
TestInputReportsOwnCallback ==
    \A t \in Threads :
        tracker.seq[t] > 0 => tracker.ret[t] = tracker.fired[t]

\* a call completed a pair and returned true; a call that returned after it, and
\* completed nothing, returned false
LaterCallReturnedFalse ==
    \E t1, t2 \in Threads :
        /\ tracker.seq[t1] > 0
        /\ tracker.ret[t1]
        /\ ~tracker.ret[t2]
        /\ tracker.seq[t2] > tracker.seq[t1]

====
